---- MODULE Spec2Model ----
(***************************************************************************)
(* A model of the explicit-free-list allocator of mm.c (64-bit build:      *)
(* a word is 8 bytes).  The heap is a word-addressed memory: mem[i] is the *)
(* word at byte address HeapLo + 8*i.  A word that was never stored holds  *)
(* Uninit; a read of it yields junk, a value chosen afresh for every       *)
(* public call.  A load or store outside [HeapLo, brk) is a wild access.   *)
(* Below the region (the null page included) it traps: the call ends in    *)
(* the status "crashed".  Beyond the break it has two outcomes, chosen     *)
(* afresh for every public call: it traps, or it strays (the load yields   *)
(* junk, the store lands outside the heap and the call goes on).  A        *)
(* free-list walk that revisits a node never returns: the call ends in the *)
(* status "hung".                                                          *)
(*                                                                         *)
(* Every C function is an operator from a heap record h (the memory, the   *)
(* break, the two globals, and the bookkeeping of the call in progress) to *)
(* the heap record after the call, whose field ret is the returned value.  *)
(* The field ev is the log of the call in progress: one entry for every    *)
(* call of place, remove_free, coalesce and memcpy, with its arguments and *)
(* what held of them at its entry, and one for every return of place and   *)
(* of coalesce.                                                            *)
(***************************************************************************)
EXTENDS Integers, Naturals, Sequences, FiniteSets, TLC

VARIABLES mem, brk, heap_listp, free_listp, live, status, last, ops

vars == <<mem, brk, heap_listp, free_listp, live, status, last, ops>>

-----------------------------------------------------------------------------
(* Program constants. *)
WSIZE == 8
DSIZE == 2 * WSIZE
CHUNKSIZE == 4096
NULL == 0
SBRK_FAIL == 0 - 1

(* Bounds of the model. *)
MaxHeap == 8288
MaxLive == 3
MaxOps == 3
MaxSmallOps == 7
MaxTunedOps == 6
MaxTunedLive == 4
MaxForgedOps == 3
MaxForgedWords == 10
MaxWideOps == 3
MaxStaleOps == 3

(* First address handed out by the region extender (double-word aligned). *)
HeapLo == 4096 * DSIZE

(* Values an uninitialised word may turn out to hold. *)
UninitVals == {0, 1}

(* Outcomes of a load or store beyond the break. *)
WildOutcomes == {"trap", "stray"}

(* Orders in which memcpy may copy the words of overlapping areas. *)
CopyOrders == {"up", "down"}

(* The content of a word that was never stored. *)
Uninit == 0 - 1

MaxWords == MaxHeap \div WSIZE
Idx(p) == (p - HeapLo) \div WSIZE

MAX(x, y) == IF x > y THEN x ELSE y

\* Do([v \in {e} |-> body]) is body with v naming the value of e, which is
\* evaluated once: a local variable of the C code
Do(f) == CHOOSE r \in UNION {{g[v] : v \in DOMAIN g} : g \in {f}} : TRUE

-----------------------------------------------------------------------------
(* Words: PACK, GET, PUT and the block arithmetic. *)

\* size | alloc, for alloc in {0, 1}
PACK(size, alloc) == IF size % 2 = 1 THEN size ELSE size + alloc

InRegion(h, p) == p >= HeapLo /\ p + WSIZE <= h.brk /\ p % WSIZE = 0

Dead(h) == h.ub \/ h.hang

\* *(uintptr_t *)(addr)
GET(h, addr) ==
    Do([p \in {addr} |->
        IF InRegion(h, p)
        THEN IF h.mem[Idx(p)] = Uninit THEN h.junk ELSE h.mem[Idx(p)]
        ELSE h.junk])

\* whether an access at p traps
Traps(h, p) == ~InRegion(h, p) /\ (p < HeapLo \/ h.wild = "trap")

\* the loads of a step, at the addresses ps
Load(h, ps) ==
    IF ~Dead(h) /\ \E p \in ps : Traps(h, p) THEN [h EXCEPT !.ub = TRUE] ELSE h

\* *(uintptr_t *)(addr) = v
PUT(h, addr, v) ==
    IF Dead(h) THEN h
    ELSE Do([p \in {addr} |->
         IF InRegion(h, p)
         THEN [h EXCEPT !.mem[Idx(p)] = v, !.wr = @ \cup {p}]
         ELSE IF Traps(h, p) THEN [h EXCEPT !.ub = TRUE]
         ELSE h])

\* GET(p) & ~(DSIZE - 1)
GET_SIZE(h, p) == Do([w \in {GET(h, p)} |-> w - (w % DSIZE)])
GET_ALLOC(h, p) == GET(h, p) % 2

HDRP(bp) == bp - WSIZE
FTRP(h, bp) == bp + GET_SIZE(h, HDRP(bp)) - DSIZE
NEXT_BLKP(h, bp) == bp + GET_SIZE(h, bp - WSIZE)
PREV_BLKP(h, bp) == bp - GET_SIZE(h, bp - DSIZE)

\* struct free_blk { void *prev; void *next; }
PrevField(bp) == bp
NextField(bp) == bp + WSIZE

\* size_t arithmetic wraps around; the modulus stands for 2^64
SizeModulus == 2^30
UAdd(x, y) == (x + y) % SizeModulus
USub(x, y) == (x - y) % SizeModulus

\* (size + (DSIZE-1)) & ~0x7
ROUND(size) == UAdd(size, DSIZE - 1) - (UAdd(size, DSIZE - 1) % 8)

-----------------------------------------------------------------------------
(* The log of a call.  Peek reads the heap record as it is, for the log     *)
(* only: the code's own loads go through GET.                              *)
Peek(h, p) == IF InRegion(h, p) THEN h.mem[Idx(p)] ELSE Uninit

\* the nodes of h's free list in next-link order, the sentinel excluded
RECURSIVE ListOf(_, _, _)
ListOf(h, node, seen) ==
    IF node = h.free_listp \/ node \in seen \/ Peek(h, NextField(node)) = Uninit
    THEN <<>>
    ELSE <<node>> \o ListOf(h, Peek(h, NextField(node)), seen \cup {node})

FreeList(h) == ListOf(h, Peek(h, NextField(h.free_listp)), {})

Listed(h, bp) == \E i \in DOMAIN FreeList(h) : FreeList(h)[i] = bp

\* the footer of the block at bp, found through the size in its header
PeekFooter(h, bp) ==
    Peek(h, bp + (Peek(h, HDRP(bp)) - (Peek(h, HDRP(bp)) % DSIZE)) - DSIZE)

\* an entry of the log: the function fn called with the block bp and the
\* size n (for memcpy: destination bp, source src, n bytes; for "placed", the
\* return of place: src is the block after the first asize bytes of bp), with
\* the tags and list membership of bp and src at that moment, the footer
\* before bp (pftr) and the header after it (nhdr)
Event(h, fn, bp, src, n) ==
    [fn |-> fn, bp |-> bp, src |-> src, n |-> n,
     hdr |-> Peek(h, HDRP(bp)), ftr |-> PeekFooter(h, bp),
     listed |-> Listed(h, bp),
     shdr |-> Peek(h, HDRP(src)), sftr |-> PeekFooter(h, src),
     slisted |-> Listed(h, src),
     pftr |-> Peek(h, bp - DSIZE),
     nhdr |-> Peek(h, bp + (Peek(h, HDRP(bp)) - (Peek(h, HDRP(bp)) % DSIZE)) - WSIZE),
     brk |-> h.brk, list |-> FreeList(h)]

Log(h, fn, bp, src, n) ==
    IF Dead(h) THEN h ELSE [h EXCEPT !.ev = Append(@, Event(h, fn, bp, src, n))]

-----------------------------------------------------------------------------
(* The region extender: grows the region or reports failure. *)
mem_sbrk(h, incr) ==
    IF h.brk + incr > HeapLo + MaxHeap
    THEN [h EXCEPT !.ret = SBRK_FAIL, !.nomem = TRUE]
    ELSE [h EXCEPT !.ret = h.brk, !.brk = h.brk + incr]

-----------------------------------------------------------------------------
(* Free-list splice operations. *)

add_free(hh, bp) ==
    Do([h0 \in {Load(hh, {NextField(hh.free_listp)})} |->
    Do([h1 \in {PUT(h0, PrevField(GET(h0, NextField(h0.free_listp))), bp)} |->
    Do([h2 \in {PUT(h1, NextField(bp), GET(h1, NextField(h1.free_listp)))} |->
    Do([h3 \in {PUT(h2, PrevField(bp), h2.free_listp)} |->
         PUT(h3, NextField(h3.free_listp), bp)])])])])

remove_free(hh, bp) ==
    Do([h0 \in {Load(Log(hh, "remove_free", bp, NULL, 0),
                      {NextField(bp), PrevField(bp)})} |->
    Do([h1 \in {PUT(h0, PrevField(GET(h0, NextField(bp))), GET(h0, PrevField(bp)))} |->
         PUT(h1, NextField(GET(h1, PrevField(bp))), GET(h1, NextField(bp)))])])

-----------------------------------------------------------------------------
(* Boundary-tag coalescing. *)

\* Case 2: the next block is free
coalesce_next(h0, bp, size) ==
    Do([h1 \in {remove_free(h0, NEXT_BLKP(h0, bp))} |->
    Do([h2 \in {PUT(h1, HDRP(bp), PACK(size, 0))} |->
    Do([h3 \in {PUT(h2, FTRP(h2, bp), PACK(size, 0))} |->
         [add_free(h3, bp) EXCEPT !.ret = bp]])])])

\* Case 3: the previous block is free
coalesce_prev(h0, bp, size) ==
    Do([h1 \in {remove_free(h0, bp)} |->
    Do([h2 \in {PUT(h1, HDRP(bp), PACK(size, 0))} |->
    Do([h3 \in {PUT(h2, FTRP(h2, bp), PACK(size, 0))} |->
         [add_free(h3, bp) EXCEPT !.ret = bp]])])])

\* Case 4: both neighbours are free
coalesce_both(h0, bp, size) ==
    Do([h1 \in {remove_free(h0, PREV_BLKP(h0, bp))} |->
    Do([h2 \in {remove_free(Load(h1, {HDRP(bp)}), NEXT_BLKP(h1, bp))} |->
    Do([h3 \in {Load(h2, {bp - DSIZE})} |->
    Do([h4 \in {PUT(h3, HDRP(PREV_BLKP(h3, bp)), PACK(size, 0))} |->
    Do([h5 \in {PUT(h4, FTRP(h4, PREV_BLKP(h3, bp)), PACK(size, 0))} |->
         [add_free(h5, PREV_BLKP(h3, bp)) EXCEPT !.ret = PREV_BLKP(h3, bp)]])])])])])

coalesce_cases(hh, bp) ==
    Do([g \in {Load(hh, {HDRP(bp), bp - DSIZE})} |->
    Do([h0 \in {Load(g, {HDRP(NEXT_BLKP(g, bp)), HDRP(PREV_BLKP(g, bp)),
                  FTRP(g, PREV_BLKP(g, bp))})} |->
        LET next_alloc == GET_ALLOC(h0, HDRP(NEXT_BLKP(h0, bp))) # 0
            prev_alloc == GET_ALLOC(h0, FTRP(h0, PREV_BLKP(h0, bp))) # 0
            size == GET_SIZE(h0, HDRP(bp))
        IN  IF Dead(h0) THEN h0
            ELSE IF prev_alloc /\ next_alloc THEN
                [add_free(h0, bp) EXCEPT !.ret = bp]
            ELSE IF prev_alloc /\ ~next_alloc THEN
                coalesce_next(h0, bp,
                              size + GET_SIZE(h0, HDRP(NEXT_BLKP(h0, bp))))
            ELSE IF ~prev_alloc /\ next_alloc THEN
                coalesce_prev(h0, PREV_BLKP(h0, bp),
                              size + GET_SIZE(h0, HDRP(PREV_BLKP(h0, bp))))
            ELSE
                Do([h1 \in {Load(h0, {FTRP(h0, NEXT_BLKP(h0, bp))})} |->
                     IF Dead(h1) THEN h1
                     ELSE coalesce_both(h1, bp,
                            size + GET_SIZE(h1, HDRP(PREV_BLKP(h1, bp)))
                                 + GET_SIZE(h1, FTRP(h1, NEXT_BLKP(h1, bp))))])])])

coalesce(hh, bp) ==
    Do([r \in {coalesce_cases(Log(hh, "coalesce", bp, NULL, 0), bp)} |->
         Log(r, "coalesced", r.ret, NULL, 0)])

-----------------------------------------------------------------------------
(* Heap extension. *)

(* extend_heap as it would be without its test of mem_sbrk's answer: the   *)
(* failure value is used as the new block's address.                       *)
extend_heap_unchecked(hh, words) ==
    LET size == IF words % 2 = 1 THEN (words + 1) * WSIZE ELSE words * WSIZE
    IN  Do([s \in {mem_sbrk(hh, size)} |->
            Do([h1 \in {PUT(s, HDRP(s.ret), PACK(size, 0))} |->
            Do([h2 \in {PUT(h1, FTRP(h1, s.ret), PACK(size, 0))} |->
            Do([h3 \in {PUT(h2, HDRP(NEXT_BLKP(h2, s.ret)), PACK(0, 1))} |->
                 coalesce(h3, s.ret)])])])])

extend_heap(hh, words) ==
    LET size == IF words % 2 = 1 THEN (words + 1) * WSIZE ELSE words * WSIZE
    IN  Do([s \in {mem_sbrk(hh, size)} |->
        IF s.ret = SBRK_FAIL THEN [s EXCEPT !.ret = NULL]
        ELSE
            Do([h1 \in {PUT(s, HDRP(s.ret), PACK(size, 0))} |->
            Do([h2 \in {PUT(h1, FTRP(h1, s.ret), PACK(size, 0))} |->
            Do([h3 \in {PUT(h2, HDRP(NEXT_BLKP(h2, s.ret)), PACK(0, 1))} |->
                 coalesce(h3, s.ret)])])])])

-----------------------------------------------------------------------------
(* Initialisation. *)

EmptyHeap ==
    [mem |-> [i \in 0 .. (MaxWords - 1) |-> Uninit], brk |-> HeapLo,
     heap_listp |-> NULL, free_listp |-> NULL, wr |-> {}, ub |-> FALSE,
     hang |-> FALSE, nomem |-> FALSE, junk |-> 0, dir |-> "up",
     wild |-> "trap", ret |-> 0, ev |-> <<>>]

mm_init(hh) ==
    Do([s \in {mem_sbrk(hh, 8 * WSIZE)} |->
    IF s.ret = SBRK_FAIL THEN [s EXCEPT !.ret = 0 - 1]
    ELSE
        Do([g \in {[s EXCEPT !.heap_listp = s.ret, !.free_listp = s.ret + 4 * WSIZE]} |->
        Do([h1 \in {PUT(g, g.heap_listp, 0)} |->
        Do([h2 \in {PUT(h1, g.heap_listp + 1 * WSIZE, PACK(DSIZE, 1))} |->
        Do([h3 \in {PUT(h2, g.heap_listp + 2 * WSIZE, PACK(DSIZE, 1))} |->
        Do([h4 \in {PUT(h3, g.heap_listp + 3 * WSIZE, PACK(4 * WSIZE, 1))} |->
        Do([h5 \in {PUT(h4, g.heap_listp + 4 * WSIZE, g.free_listp)} |->
        Do([h6 \in {PUT(h5, g.heap_listp + 5 * WSIZE, g.free_listp)} |->
        Do([h7 \in {PUT(h6, g.heap_listp + 6 * WSIZE, PACK(4 * WSIZE, 1))} |->
        Do([h8 \in {PUT(h7, g.heap_listp + 7 * WSIZE, PACK(0, 1))} |->
        Do([e \in {extend_heap([h8 EXCEPT !.heap_listp = @ + 2 * WSIZE],
                         CHUNKSIZE \div WSIZE)} |->
             IF e.ret = NULL THEN [e EXCEPT !.ret = 0 - 1]
             ELSE [e EXCEPT !.ret = 0]])])])])])])])])])])])

-----------------------------------------------------------------------------
(* First-fit search of the free list. *)

\* the for loop, entered with the node bp; seen holds the nodes already visited
RECURSIVE find_fit_loop(_, _, _, _)
find_fit_loop(hh, asize, node, visited) ==
    Do([a \in {<<node, visited>>} |->
    LET bp == a[1]
        seen == a[2]
    IN  Do([h \in {Load(hh, {HDRP(bp)})} |->
        IF Dead(h) THEN h
        ELSE IF GET_ALLOC(h, HDRP(bp)) # 0 THEN [h EXCEPT !.ret = NULL]
        ELSE IF asize <= GET_SIZE(h, HDRP(bp)) THEN [h EXCEPT !.ret = bp]
        ELSE IF bp = h.free_listp THEN [h EXCEPT !.ret = NULL]
        ELSE IF bp \in seen THEN [h EXCEPT !.hang = TRUE]
        ELSE Do([g \in {Load(h, {NextField(bp)})} |->
             IF Dead(g) THEN g
             ELSE find_fit_loop(g, asize, GET(g, NextField(bp)),
                                seen \cup {bp})])])])

find_fit(hh, asize) ==
    Do([h \in {Load(hh, {NextField(hh.free_listp)})} |->
        IF Dead(h) THEN h
        ELSE find_fit_loop(h, asize, GET(h, NextField(h.free_listp)), {})])

-----------------------------------------------------------------------------
(* Placement with split-on-excess. *)

place_split(h0, bp, asize, csize) ==
    Do([h1 \in {PUT(h0, HDRP(bp), PACK(asize, 1))} |->
    Do([h2 \in {PUT(h1, FTRP(h1, bp), PACK(asize, 1))} |->
    Do([h3 \in {remove_free(h2, bp)} |->
    Do([h4 \in {PUT(h3, HDRP(NEXT_BLKP(h3, bp)), PACK(USub(csize, asize), 0))} |->
    Do([h5 \in {PUT(h4, FTRP(h4, NEXT_BLKP(h3, bp)), PACK(USub(csize, asize), 0))} |->
         add_free(h5, NEXT_BLKP(h3, bp))])])])])])

place_whole(h0, bp, csize) ==
    Do([h1 \in {PUT(h0, HDRP(bp), PACK(csize, 1))} |->
    Do([h2 \in {PUT(h1, FTRP(h1, bp), PACK(csize, 1))} |->
         remove_free(h2, bp)])])

place(hh, bp, asize) ==
    Do([h0 \in {Load(Log(hh, "place", bp, NULL, asize), {HDRP(bp)})} |->
        IF Dead(h0) THEN h0
        ELSE IF USub(GET_SIZE(h0, HDRP(bp)), asize) >= 3 * DSIZE
             THEN Log(place_split(h0, bp, asize, GET_SIZE(h0, HDRP(bp))),
                      "placed", bp, bp + asize, asize)
             ELSE Log(place_whole(h0, bp, GET_SIZE(h0, HDRP(bp))),
                      "placed", bp, bp + asize, asize)])

-----------------------------------------------------------------------------
(* The public operations. *)

\* the adjusted block size of mm_malloc, hard-coded cases included
AdjustedSize(size) ==
    LET a0 == IF size <= DSIZE THEN 2 * DSIZE
              ELSE DSIZE * (UAdd(size, DSIZE + (DSIZE - 1)) \div DSIZE)
        a1 == IF size = 448 THEN 528 ELSE a0
    IN  IF size = 112 THEN 144 ELSE a1

mm_malloc(hh, size) ==
    IF size <= 0 THEN [hh EXCEPT !.ret = NULL]
    ELSE
        Do([f \in {find_fit(hh, AdjustedSize(size))} |->
        IF Dead(f) THEN f
        ELSE IF f.ret # NULL
        THEN [place(f, f.ret, AdjustedSize(size)) EXCEPT !.ret = f.ret]
        ELSE
            Do([e \in {extend_heap(f, MAX(AdjustedSize(size), CHUNKSIZE) \div WSIZE)} |->
            IF Dead(e) \/ e.ret = NULL THEN e
            ELSE [place(e, e.ret, AdjustedSize(size)) EXCEPT !.ret = e.ret]])])

mm_free(hh, bp) ==
    IF bp = NULL THEN hh
    ELSE
        Do([h0 \in {Load(hh, {HDRP(bp)})} |->
        Do([h1 \in {PUT(h0, HDRP(bp), PACK(GET_SIZE(h0, HDRP(bp)), 0))} |->
        Do([h2 \in {PUT(h1, FTRP(h1, bp), PACK(GET_SIZE(h0, HDRP(bp)), 0))} |->
             IF Dead(h2) THEN h2 ELSE coalesce(h2, bp)])])])

\* memcpy(dst, src, n), n a multiple of the word size and both addresses word
\* aligned.  Overlapping areas are undefined behaviour: the outcomes are those
\* of a copy that goes word by word, upwards or downwards (h.dir).  CopiedFrom
\* is the source word whose original content ends up in destination word k:
\* an upward copy to a higher overlapping address repeats the first words, a
\* downward copy to a lower overlapping address repeats the last ones.
CopiedFrom(dir, delta, words, k) ==
    IF dir = "up" /\ delta > 0 /\ delta < words THEN k % delta
    ELSE IF dir = "down" /\ delta < 0 /\ (0 - delta) < words
    THEN k + (0 - delta) * ((words - 1 - k) \div (0 - delta))
    ELSE k

\* A source word that is uninitialised or beyond the region leaves the
\* destination uninitialised; a word beyond the region is a wild access.
memcpy(hh, dst, src, n) ==
    Do([h \in {Log(hh, "memcpy", dst, src, n)} |->
    LET words == n \div WSIZE
        offs == {k * WSIZE : k \in 0 .. (words - 1)}
        delta == (dst - src) \div WSIZE
        first == (dst - HeapLo) \div WSIZE
        from(i) == src + WSIZE * CopiedFrom(h.dir, delta, words, i - first)
        copied == [i \in DOMAIN h.mem |->
                     IF i < first \/ i >= first + words THEN h.mem[i]
                     ELSE IF InRegion(h, from(i)) THEN h.mem[Idx(from(i))]
                     ELSE Uninit]
    IN  IF Dead(h) THEN h
        ELSE IF \E o \in offs : Traps(h, dst + o) \/ Traps(h, src + o)
        THEN [h EXCEPT !.ub = TRUE]
        ELSE [h EXCEPT !.mem = copied,
                       !.wr = @ \cup {dst + o : o \in {x \in offs : InRegion(h, dst + x)}}]])

ReallocSize(size) == MAX(UAdd(ROUND(size), DSIZE), 24)

\* the branch of mm_realloc that allocates a new block and copies
realloc_copy(h1, ptr, asize) ==
    Do([m \in {mm_malloc(h1, asize)} |->
    IF Dead(m) THEN m
    ELSE
        Do([h2 \in {place(m, m.ret, asize)} |->
        Do([h3 \in {memcpy(h2, m.ret, ptr, asize)} |->
        Do([h4 \in {mm_free(h3, ptr)} |->
             [h4 EXCEPT !.ret = m.ret]])])])])

\* the branch of mm_realloc that absorbs the free next block
realloc_absorb(h1, ptr, esize) ==
    Do([h2 \in {remove_free(h1, NEXT_BLKP(h1, ptr))} |->
    Do([h3 \in {PUT(h2, HDRP(ptr), PACK(esize, 1))} |->
    Do([h4 \in {PUT(h3, FTRP(h3, ptr), PACK(esize, 1))} |->
         [h4 EXCEPT !.ret = ptr]])])])

mm_realloc(hh, ptr, size) ==
    IF size = 0 THEN [mm_free(hh, ptr) EXCEPT !.ret = NULL]
    ELSE IF ptr = NULL THEN mm_malloc(hh, ReallocSize(size))
    ELSE
        Do([h0 \in {Load(hh, {HDRP(ptr)})} |->
        LET asize == ReallocSize(size)
            oldsize == GET_SIZE(h0, HDRP(ptr))
        IN  IF Dead(h0) THEN h0
            ELSE IF asize <= oldsize THEN [h0 EXCEPT !.ret = ptr]
            ELSE
                Do([h1 \in {Load(h0, {HDRP(NEXT_BLKP(h0, ptr))})} |->
                LET esize == oldsize + GET_SIZE(h1, HDRP(NEXT_BLKP(h1, ptr)))
                IN  IF Dead(h1) THEN h1
                    ELSE IF GET_ALLOC(h1, HDRP(NEXT_BLKP(h1, ptr))) = 0
                            /\ esize >= asize
                    THEN realloc_absorb(h1, ptr, esize)
                    ELSE realloc_copy(h1, ptr, asize)])])

-----------------------------------------------------------------------------
(* The state machine: one action per public call of the allocator's user.  *)
(* live maps every pointer the user holds to the size it was requested     *)
(* with; last records the call just made: its arguments, its result, the   *)
(* addresses it stored to (wr), whether the region extender refused it     *)
(* (nomem), and the pointers the user held when it began (live0).          *)

Heap(j, d, w) ==
    [mem |-> mem, brk |-> brk, heap_listp |-> heap_listp,
     free_listp |-> free_listp, wr |-> {}, ub |-> FALSE, hang |-> FALSE,
     nomem |-> FALSE, junk |-> j, dir |-> d, wild |-> w, ret |-> 0,
     ev |-> <<>>]

StatusOf(h) == IF h.ub THEN "crashed" ELSE IF h.hang THEN "hung" ELSE "ok"

Commit(h) ==
    /\ mem' = h.mem
    /\ brk' = h.brk
    /\ heap_listp' = h.heap_listp
    /\ free_listp' = h.free_listp
    /\ status' = StatusOf(h)
    /\ ops' = ops + 1

LivePtrs == DOMAIN live

Without(f, p) == [q \in (DOMAIN f) \ {p} |-> f[q]]
With(f, p, n) == [q \in (DOMAIN f) \cup {p} |-> IF q = p THEN n ELSE f[q]]

Called(op, ptr, size, r) ==
    [op |-> op, ptr |-> ptr, size |-> size,
     ret |-> IF Dead(r) THEN NULL ELSE r.ret,
     wr |-> r.wr, nomem |-> r.nomem, live0 |-> live, ev |-> r.ev]

Started == mm_init(EmptyHeap)

Init ==
    \E s \in {Started} :
        /\ mem = s.mem
        /\ brk = s.brk
        /\ heap_listp = s.heap_listp
        /\ free_listp = s.free_listp
        /\ live = <<>>
        /\ status = "ok"
        /\ ops = 0
        /\ last = [op |-> "init", ptr |-> NULL, size |-> 0, ret |-> s.ret,
                   wr |-> s.wr, nomem |-> s.nomem, live0 |-> <<>>,
                   ev |-> s.ev]

Malloc(n) ==
    /\ status = "ok"
    /\ \E j \in UninitVals, w \in WildOutcomes : \E h \in {Heap(j, "up", w)} :
       \E r \in {mm_malloc(h, n)} :
             /\ Commit(r)
             /\ live' = IF Dead(r) \/ r.ret = NULL THEN live
                        ELSE With(live, r.ret, n)
             /\ last' = Called("malloc", NULL, n, r)

Free(p) ==
    /\ status = "ok"
    /\ \E j \in UninitVals, w \in WildOutcomes : \E h \in {Heap(j, "up", w)} :
       \E r \in {mm_free(h, p)} :
             /\ Commit(r)
             /\ live' = IF Dead(r) THEN live ELSE Without(live, p)
             /\ last' = Called("free", p, 0, [r EXCEPT !.ret = NULL])

Realloc(p, n) ==
    /\ status = "ok"
    /\ \E j \in UninitVals, w \in WildOutcomes, d \in CopyOrders :
       \E h \in {Heap(j, d, w)} :
       \E r \in {mm_realloc(h, p, n)} :
             /\ Commit(r)
             /\ live' = IF Dead(r) THEN live
                        ELSE IF n = 0 THEN Without(live, p)
                        ELSE IF r.ret = NULL THEN live
                        ELSE With(Without(live, p), r.ret, n)
             /\ last' = Called("realloc", p, n, r)

(* The calls a user makes: any request size of Sizes or zero, any pointer  *)
(* it holds or null.                                                       *)
Sizes == {1, 9, 3952, 4090}

MallocCall ==
    /\ ops < MaxOps
    /\ Cardinality(LivePtrs) < MaxLive
    /\ \E n \in Sizes \cup {0} : Malloc(n)

FreeCall ==
    /\ ops < MaxOps
    /\ \E p \in LivePtrs \cup {NULL} : Free(p)

ReallocCall ==
    /\ ops < MaxOps
    /\ \E p \in LivePtrs \cup {NULL}, n \in Sizes \cup {0} :
         (p = NULL => Cardinality(LivePtrs) < MaxLive) /\ Realloc(p, n)

Next == MallocCall \/ FreeCall \/ ReallocCall

Spec == Init /\ [][Next]_vars

(* Longer runs of a user who asks for small blocks only and grows them.    *)
SmallSizes == {1, 17}
GrowSizes == {9}

MallocSmall ==
    /\ ops < MaxSmallOps
    /\ Cardinality(LivePtrs) < MaxLive
    /\ \E n \in SmallSizes : Malloc(n)

FreeSmall ==
    /\ ops < MaxSmallOps
    /\ \E p \in LivePtrs : Free(p)

ReallocSmall ==
    /\ ops < MaxSmallOps
    /\ \E p \in LivePtrs, n \in GrowSizes : Realloc(p, n)

NextSmall == MallocSmall \/ FreeSmall \/ ReallocSmall

SpecSmall == Init /\ [][NextSmall]_vars

(* Runs of a user whose reallocate meets the hard-coded 448 -> 528 case of *)
(* mm_malloc: blocks of 80 and 368 bytes, grown to 417 bytes of payload.   *)
TunedSizes == {64, 352}
TunedGrow == {417}

MallocTuned ==
    /\ ops < MaxTunedOps
    /\ Cardinality(LivePtrs) < MaxTunedLive
    /\ \E n \in TunedSizes : Malloc(n)

FreeTuned ==
    /\ ops < MaxTunedOps
    /\ \E p \in LivePtrs : Free(p)

ReallocTuned ==
    /\ ops < MaxTunedOps
    /\ \E p \in LivePtrs, n \in TunedGrow : Realloc(p, n)

NextTuned == MallocTuned \/ FreeTuned \/ ReallocTuned

SpecTuned == Init /\ [][NextTuned]_vars

(* Runs of a user who also stores into its own payloads.  They begin in    *)
(* the heap that eight calls leave behind: x, a, b = mm_malloc(1) three    *)
(* times, mm_free(a), c = mm_malloc(17), r = mm_realloc(b, 9), mm_free(x), *)
(* big = mm_malloc(80).  None of these calls reads an unwritten word or    *)
(* leaves the region, so the heap they leave is the same in every run.     *)
Again(h) == [h EXCEPT !.wr = {}, !.nomem = FALSE, !.ev = <<>>]

Staged ==
    Do([x \in {mm_malloc(Again(Started), 1)} |->
    Do([a \in {mm_malloc(Again(x), 1)} |->
    Do([b \in {mm_malloc(Again(a), 1)} |->
    Do([fa \in {mm_free(Again(b), a.ret)} |->
    Do([c \in {mm_malloc(Again(fa), 17)} |->
    Do([r \in {mm_realloc(Again(c), b.ret, 9)} |->
    Do([fx \in {mm_free(Again(r), x.ret)} |->
    Do([big \in {mm_malloc(Again(fx), 80)} |->
        [heap |-> big,
         live |-> With(With(With(<<>>, c.ret, 17), r.ret, 9), big.ret, 80)]
    ])])])])])])])])

InitForged ==
    \E s \in {Staged} :
        /\ mem = s.heap.mem
        /\ brk = s.heap.brk
        /\ heap_listp = s.heap.heap_listp
        /\ free_listp = s.heap.free_listp
        /\ live = s.live
        /\ status = StatusOf(s.heap)
        /\ ops = 0
        /\ last = [op |-> "malloc", ptr |-> NULL, size |-> 80,
                   ret |-> s.heap.ret, wr |-> s.heap.wr,
                   nomem |-> s.heap.nomem,
                   live0 |-> Without(s.live, s.heap.ret), ev |-> s.heap.ev]

ForgedRequests == {3952}

(* The user stores three words at word k of the payload it was given at p: *)
(* the address of the third of them, the block size mm_malloc(n) looks     *)
(* for, and the address of the free list's sentinel.                       *)
UserWrite(p, k, n) ==
    /\ status = "ok"
    /\ (k + 3) * WSIZE <= live[p]
    /\ mem' = [mem EXCEPT ![Idx(p + k * WSIZE)] = p + (k + 2) * WSIZE,
                          ![Idx(p + (k + 1) * WSIZE)] = AdjustedSize(n),
                          ![Idx(p + (k + 2) * WSIZE)] = free_listp]
    /\ ops' = ops + 1
    /\ last' = [op |-> "write", ptr |-> p, size |-> n, ret |-> NULL,
                wr |-> {}, nomem |-> FALSE, live0 |-> live, ev |-> <<>>]
    /\ UNCHANGED <<brk, heap_listp, free_listp, live, status>>

WriteForged ==
    /\ ops < MaxForgedOps
    /\ \E p \in LivePtrs, n \in ForgedRequests :
           \E k \in 0 .. (MaxForgedWords - 3) : UserWrite(p, k, n)

MallocForged ==
    /\ ops < MaxForgedOps
    /\ Cardinality(LivePtrs) < MaxTunedLive
    /\ \E n \in ForgedRequests \cup SmallSizes : Malloc(n)

FreeForged ==
    /\ ops < MaxForgedOps
    /\ \E p \in LivePtrs : Free(p)

NextForged == WriteForged \/ MallocForged \/ FreeForged

SpecForged == InitForged /\ [][NextForged]_vars

(* Runs that begin in the heap that eight calls leave behind: n =          *)
(* mm_malloc(17), a, b, c = mm_malloc(1) three times, mm_free(n),          *)
(* mm_free(c), r = mm_realloc(a, 9), n2 = mm_malloc(17).  None of these    *)
(* calls reads an unwritten word or leaves the region.                     *)
StagedStale ==
    Do([n \in {mm_malloc(Again(Started), 17)} |->
    Do([a \in {mm_malloc(Again(n), 1)} |->
    Do([b \in {mm_malloc(Again(a), 1)} |->
    Do([c \in {mm_malloc(Again(b), 1)} |->
    Do([fn \in {mm_free(Again(c), n.ret)} |->
    Do([fc \in {mm_free(Again(fn), c.ret)} |->
    Do([r \in {mm_realloc(Again(fc), a.ret, 9)} |->
    Do([n2 \in {mm_malloc(Again(r), 17)} |->
        [heap |-> n2,
         live |-> With(With(With(<<>>, b.ret, 1), r.ret, 9), n2.ret, 17)]
    ])])])])])])])])

InitStale ==
    \E s \in {StagedStale} :
        /\ mem = s.heap.mem
        /\ brk = s.heap.brk
        /\ heap_listp = s.heap.heap_listp
        /\ free_listp = s.heap.free_listp
        /\ live = s.live
        /\ status = StatusOf(s.heap)
        /\ ops = 0
        /\ last = [op |-> "malloc", ptr |-> NULL, size |-> 17,
                   ret |-> s.heap.ret, wr |-> s.heap.wr,
                   nomem |-> s.heap.nomem,
                   live0 |-> Without(s.live, s.heap.ret), ev |-> s.heap.ev]

StaleSizes == {1, 4090}

MallocStale ==
    /\ ops < MaxStaleOps
    /\ Cardinality(LivePtrs) < MaxTunedLive
    /\ \E n \in StaleSizes : Malloc(n)

FreeStale ==
    /\ ops < MaxStaleOps
    /\ \E p \in LivePtrs : Free(p)

ReallocStale ==
    /\ ops < MaxStaleOps
    /\ \E p \in LivePtrs, n \in GrowSizes : Realloc(p, n)

NextStale == MallocStale \/ FreeStale \/ ReallocStale

SpecStale == InitStale /\ [][NextStale]_vars

(* Runs of a user whose request sizes reach the top of the size_t range.   *)
WideSizes == {1, 17, SizeModulus - 8, SizeModulus - 16}

MallocWide ==
    /\ ops < MaxWideOps
    /\ Cardinality(LivePtrs) < MaxLive
    /\ \E n \in WideSizes : Malloc(n)

FreeWide ==
    /\ ops < MaxWideOps
    /\ \E p \in LivePtrs : Free(p)

ReallocWide ==
    /\ ops < MaxWideOps
    /\ \E p \in LivePtrs, n \in WideSizes : Realloc(p, n)

NextWide == MallocWide \/ FreeWide \/ ReallocWide

SpecWide == Init /\ [][NextWide]_vars

-----------------------------------------------------------------------------
(* What an observer of the heap sees between two calls. *)

\* the word at address p, Uninit when it was never stored or lies outside
Word(p) ==
    IF p >= HeapLo /\ p + WSIZE <= brk /\ p % WSIZE = 0
    THEN mem[Idx(p)] ELSE Uninit

SizeOf(w) == w - (w % DSIZE)
AllocOf(w) == w % 2

\* the blocks met from bp on by adding each block's header size, up to the
\* first header that is unreadable or of size zero
RECURSIVE WalkFrom(_)
WalkFrom(bp) ==
    IF Word(HDRP(bp)) = Uninit \/ SizeOf(Word(HDRP(bp))) <= 0 THEN <<>>
    ELSE <<bp>> \o WalkFrom(bp + SizeOf(Word(HDRP(bp))))

Blocks == WalkFrom(heap_listp)

\* where the walk stops
WalkEnd ==
    IF Blocks = <<>> THEN heap_listp
    ELSE Blocks[Len(Blocks)] + SizeOf(Word(HDRP(Blocks[Len(Blocks)])))

IsFree(bp) == AllocOf(Word(HDRP(bp))) = 0

FreeBlocks == {Blocks[i] : i \in {k \in DOMAIN Blocks : IsFree(Blocks[k])}}

\* the nodes met from node on by following the link at offset off (0: prev,
\* WSIZE: next), the sentinel excluded; the walk stops at the sentinel, at a
\* node it cannot read, or at a node it has met already
RECURSIVE ListFrom(_, _, _)
ListFrom(node, off, seen) ==
    IF node = free_listp \/ Word(node + off) = Uninit \/ node \in seen
    THEN <<>>
    ELSE <<node>> \o ListFrom(Word(node + off), off, seen \cup {node})

NextList == ListFrom(Word(NextField(free_listp)), WSIZE, {})
PrevList == ListFrom(Word(PrevField(free_listp)), 0, {})

\* the node at which a traversal stops (the sentinel for a circular list)
RECURSIVE ListEnd(_, _, _)
ListEnd(node, off, seen) ==
    IF node = free_listp \/ Word(node + off) = Uninit \/ node \in seen
    THEN node
    ELSE ListEnd(Word(node + off), off, seen \cup {node})

Range(s) == {s[i] : i \in DOMAIN s}
Count(s, x) == Cardinality({i \in DOMAIN s : s[i] = x})

\* the words of the payload [p, p + n) the user asked for
PayloadWords(p, n) == {p + WSIZE * k : k \in 0 .. (((n + WSIZE - 1) \div WSIZE) - 1)}

Completed == status = "ok"

-----------------------------------------------------------------------------
(* The properties. *)

\* C1: after every completed call the requested payloads [p, p+n) of the
\* live allocations are pairwise disjoint (a returned pointer is never one the
\* user already holds, unless reallocate returns its own argument), and the
\* call stored into no word of the requested payload of a live allocation
\* other than the block it returned.
PayloadsUntouched ==
    Completed =>
        /\ \A p, q \in LivePtrs :
             p # q => PayloadWords(p, live[p]) \cap PayloadWords(q, live[q]) = {}
        /\ (last.op \in {"malloc", "realloc"} /\ last.ret # NULL)
             => (last.ret = last.ptr \/ last.ret \notin DOMAIN last.live0)
        /\ \A p \in LivePtrs \ {last.ret} :
             last.wr \cap PayloadWords(p, live[p]) = {}

\* C2: after every completed call every block of the heap whose allocated bit
\* is 0 is reached from the sentinel by next links exactly once, and every
\* node so reached is a block of the heap whose allocated bit is 0.
FreeListExact ==
    Completed =>
        /\ ListEnd(Word(NextField(free_listp)), WSIZE, {}) = free_listp
        /\ \A b \in FreeBlocks : Count(NextList, b) = 1
        /\ \A x \in Range(NextList) : x \in FreeBlocks

\* C3: after every completed call the walk from the prologue by header sizes
\* meets only well-formed blocks (size a non-zero multiple of 2*WSIZE, header
\* word equal to footer word) and stops exactly at the epilogue header, a
\* word PACK(0, 1) that is the last word of the region.
HeapWalkable ==
    Completed =>
        /\ \A i \in DOMAIN Blocks :
             /\ Word(HDRP(Blocks[i])) % DSIZE \in {0, 1}
             /\ Word(Blocks[i] + SizeOf(Word(HDRP(Blocks[i]))) - DSIZE)
                  = Word(HDRP(Blocks[i]))
        /\ HDRP(WalkEnd) = brk - WSIZE
        /\ Word(HDRP(WalkEnd)) = PACK(0, 1)

\* C4: after every completed call no two physically adjacent blocks of the
\* heap both have their allocated bit clear.
NoAdjacentFree ==
    Completed =>
        \A i \in DOMAIN Blocks :
            i < Len(Blocks) => ~(IsFree(Blocks[i]) /\ IsFree(Blocks[i + 1]))

\* C5: a non-null pointer returned by allocate(n) or reallocate(ptr, n), n > 0,
\* names a block whose header word equals its footer word, whose allocated bit
\* is set and whose size is at least n + 2*WSIZE.
ReturnedBlockSound ==
    (Completed /\ last.op \in {"malloc", "realloc"} /\ last.size > 0
       /\ last.ret # NULL)
      => /\ Word(HDRP(last.ret)) # Uninit
         /\ Word(last.ret + SizeOf(Word(HDRP(last.ret))) - DSIZE)
              = Word(HDRP(last.ret))
         /\ AllocOf(Word(HDRP(last.ret))) = 1
         /\ SizeOf(Word(HDRP(last.ret))) >= last.size + 2 * WSIZE

\* C6: the region extender's first address being double-word aligned, every
\* non-null pointer returned by allocate or reallocate is a multiple of
\* 2*WSIZE.
ReturnedAligned ==
    (Completed /\ HeapLo % DSIZE = 0
       /\ last.op \in {"malloc", "realloc"} /\ last.ret # NULL)
      => last.ret % DSIZE = 0

\* C7: after every completed call the free list is a well-formed circular
\* doubly-linked list: the next links lead from the sentinel back to the
\* sentinel, so do the prev links, both traversals meet the same blocks as
\* often, and x.next.prev = x and x.prev.next = x for every node x, the
\* sentinel included.
FreeListCircular ==
    Completed =>
        /\ ListEnd(Word(NextField(free_listp)), WSIZE, {}) = free_listp
        /\ ListEnd(Word(PrevField(free_listp)), 0, {}) = free_listp
        /\ \A x \in Range(NextList) \cup Range(PrevList) \cup {free_listp} :
             /\ Count(NextList, x) = Count(PrevList, x)
             /\ Word(PrevField(Word(NextField(x)))) = x
             /\ Word(NextField(Word(PrevField(x)))) = x

\* C8: a reallocate(ptr, size), ptr non-null and size > 0, that needs a new
\* block and is refused by the region extender returns null and alters
\* nothing: memory, region size, free list and the user's blocks are as
\* before the call.
ReallocRefusedClean ==
    [][(last'.op = "realloc" /\ last'.ptr # NULL /\ last'.size > 0
         /\ last'.nomem)
        => /\ status' = "ok"
           /\ last'.ret = NULL
           /\ mem' = mem /\ brk' = brk
           /\ heap_listp' = heap_listp /\ free_listp' = free_listp
           /\ live' = live]_vars

\* C9: an allocate(n), n > 0, that finds no fit and is refused by the region
\* extender returns null and leaves the heap exactly as it was: no word of
\* the region stored to, region size and globals unchanged.
MallocRefusedClean ==
    [][(last'.op = "malloc" /\ last'.size > 0 /\ last'.nomem)
        => /\ status' = "ok"
           /\ last'.ret = NULL
           /\ last'.wr = {}
           /\ mem' = mem /\ brk' = brk
           /\ heap_listp' = heap_listp /\ free_listp' = free_listp
           /\ live' = live]_vars

\* a state reached by an allocate that the region extender refused
MallocRefused ==
    /\ Completed
    /\ last.op = "malloc" /\ last.size > 0 /\ last.nomem /\ last.ret = NULL

\* C10: in every reachable state and for every size > 0, reallocate(null,
\* size) and allocate(size) return the same pointer and leave the same heap
\* (hence the same block size and the same free list).
ReallocNullIsMalloc ==
    Completed =>
        \A n \in Sizes, j \in UninitVals, w \in WildOutcomes :
            LET h == Heap(j, "up", w)
                a == mm_realloc(h, NULL, n)
                b == mm_malloc(h, n)
            IN  /\ a.ret = b.ret
                /\ a.mem = b.mem /\ a.brk = b.brk
                /\ a.ub = b.ub /\ a.hang = b.hang

\* the entries of the log of the call just made that fn made
Events(fn) == {i \in DOMAIN last.ev : last.ev[i].fn = fn}

\* C11: a reallocate that takes the fallback path with a successful
\* allocation copies exactly min(oldsize - 2*WSIZE, size) bytes, reads only
\* bytes of the old block's payload, leaves the old payload's first
\* min(oldsize - 2*WSIZE, size) bytes at the start of the new block, frees the
\* old block and returns the new pointer.
ReallocCopiesPayload ==
    [][\A i \in DOMAIN last'.ev :
         (last'.op = "realloc" /\ last'.ev[i].fn = "memcpy") =>
           LET e == last'.ev[i]
               payload == SizeOf(Word(HDRP(last'.ptr))) - 2 * WSIZE
               keep == IF payload < last'.size THEN payload ELSE last'.size
           IN  /\ e.src = last'.ptr
               /\ e.n = keep
               /\ e.src + e.n <= last'.ptr + payload
               /\ status' = "ok" =>
                    /\ last'.ret = e.bp
                    /\ last'.ptr \notin DOMAIN live'
                    /\ \A k \in 0 .. ((keep \div WSIZE) - 1) :
                         mem'[Idx(e.bp + k * WSIZE)]
                           = mem[Idx(last'.ptr + k * WSIZE)]]_vars

\* the sequence s without its entries equal to x
Drop(s, x) == LET other(y) == y # x IN SelectSeq(s, other)

\* the reallocate just made found ptr live, size > 0, the adjusted size above
\* the block's size, the next block free and the two together large enough
\* (read in the state before the call)
AbsorbCase ==
    /\ last'.op = "realloc" /\ last'.size > 0
    /\ last'.ptr \in LivePtrs
    /\ ReallocSize(last'.size) > SizeOf(Word(HDRP(last'.ptr)))
    /\ Word(HDRP(last'.ptr + SizeOf(Word(HDRP(last'.ptr))))) # Uninit
    /\ IsFree(last'.ptr + SizeOf(Word(HDRP(last'.ptr))))
    /\ SizeOf(Word(HDRP(last'.ptr)))
         + SizeOf(Word(HDRP(last'.ptr + SizeOf(Word(HDRP(last'.ptr))))))
       >= ReallocSize(last'.size)

\* C12: a reallocate of a live block whose adjusted size exceeds the block
\* and whose free next block makes up the difference returns ptr; header and
\* footer then hold (oldsize + next.size, allocated), the next block is off
\* the free list, nothing is split off, the payload is as it was, and the
\* other blocks and free-list nodes are as they were.
ReallocAbsorbs ==
    [][AbsorbCase =>
         LET ptr == last'.ptr
             oldsize == SizeOf(Word(HDRP(ptr)))
             next == ptr + oldsize
             esize == oldsize + SizeOf(Word(HDRP(next)))
         IN  /\ status' = "ok"
             /\ last'.ret = ptr
             /\ brk' = brk
             /\ mem'[Idx(HDRP(ptr))] = PACK(esize, 1)
             /\ mem'[Idx(ptr + esize - DSIZE)] = PACK(esize, 1)
             /\ NextList' = Drop(NextList, next)
             /\ \A i \in DOMAIN mem :
                  mem'[i] # mem[i] =>
                    \/ i \in {Idx(HDRP(ptr)), Idx(ptr + esize - DSIZE)}
                    \/ \E x \in Range(NextList) \cup {free_listp} :
                         i \in {Idx(PrevField(x)), Idx(NextField(x))}]_vars

\* C13: a reallocate of a live block, size > 0, whose adjusted size does not
\* exceed the block's size returns ptr and changes nothing in the heap (no
\* word, no global, no region size); and the block's payload, oldsize -
\* 2*WSIZE bytes, is then at least size bytes.
ReallocInPlace ==
    [][(/\ last'.op = "realloc" /\ last'.size > 0
        /\ last'.ptr \in LivePtrs
        /\ ReallocSize(last'.size) <= SizeOf(Word(HDRP(last'.ptr))))
       => /\ status' = "ok"
          /\ last'.ret = last'.ptr
          /\ last'.wr = {}
          /\ mem' = mem /\ brk' = brk
          /\ heap_listp' = heap_listp /\ free_listp' = free_listp
          /\ SizeOf(Word(HDRP(last'.ptr))) - 2 * WSIZE >= last'.size]_vars

\* p = mm_malloc(n); mm_free(p); q = mm_malloc(n) made from the heap h: the
\* heap records after each of the three calls
Reuse(h, n) ==
    Do([a \in {mm_malloc(h, n)} |->
    Do([b \in {IF Dead(a) \/ a.ret = NULL THEN a ELSE mm_free(Again(a), a.ret)} |->
    Do([c \in {IF Dead(b) \/ a.ret = NULL THEN b ELSE mm_malloc(Again(b), n)} |->
         <<a, b, c>>])])])

\* the three calls all completed and both allocations succeeded
Reused(r) ==
    /\ ~Dead(r[1]) /\ r[1].ret # NULL
    /\ ~Dead(r[3]) /\ r[3].ret # NULL

\* C14: in every reachable state and for every n > 0 for which the calls
\* succeed, p = allocate(n); free(p); q = allocate(n) gives q a block of the
\* size p's block had.
FreedBlockReused ==
    Completed =>
        \A n \in Sizes, j \in UninitVals, w \in WildOutcomes :
            LET r == Reuse(Heap(j, "up", w), n)
            IN  Reused(r) =>
                  Peek(r[3], HDRP(r[3].ret)) - (Peek(r[3], HDRP(r[3].ret)) % DSIZE)
                    = Peek(r[1], HDRP(r[1].ret)) - (Peek(r[1], HDRP(r[1].ret)) % DSIZE)

\* C15: every call made in a reachable state terminates: no call is left
\* walking the free list for ever (find_fit's walk ends at a fitting block, at
\* the sentinel or at an allocated block).
EveryCallReturns == status # "hung"

\* C16: every call of place(bp, asize) made by a call of the interface finds
\* bp's header with the allocated bit clear, bp on the free list and bp's
\* size at least asize; every call of remove_free is on a listed block.
PlaceOnListedFreeBlock ==
    \A i \in DOMAIN last.ev :
        /\ last.ev[i].fn = "place" =>
              /\ last.ev[i].hdr # Uninit
              /\ last.ev[i].hdr % 2 = 0
              /\ last.ev[i].listed
              /\ last.ev[i].hdr - (last.ev[i].hdr % DSIZE) >= last.ev[i].n
        /\ last.ev[i].fn = "remove_free" => last.ev[i].listed

\* the entry of the log made when the call of place logged at i returned
Placed(i) ==
    CHOOSE j \in DOMAIN last.ev :
        /\ j > i /\ last.ev[j].fn = "placed"
        /\ \A k \in DOMAIN last.ev : (k > i /\ k < j) => last.ev[k].fn # "placed"

\* the call of place logged at i was given a listed free block of size
\* csize >= asize, and the interface call that made it completed
PlaceCase(i) ==
    /\ status = "ok"
    /\ last.ev[i].fn = "place"
    /\ last.ev[i].hdr # Uninit /\ last.ev[i].hdr % DSIZE = 0
    /\ last.ev[i].listed
    /\ last.ev[i].hdr >= last.ev[i].n

\* C17: place(bp, asize) on a listed free block of size csize >= asize
\* splits if and only if csize - asize >= 3*DSIZE.  Split: bp has header and
\* footer (asize, allocated) and is off the list, the block after it has
\* header and footer (csize - asize, free) and is on the list.  No split: bp
\* has header and footer (csize, allocated) and is off the list, and the list
\* has no node it did not have.  The sizes sum to csize in both cases.
PlaceSplitsOrTakesWhole ==
    \A i \in DOMAIN last.ev :
        PlaceCase(i) =>
            /\ \E j \in DOMAIN last.ev : j > i /\ last.ev[j].fn = "placed"
            /\ IF last.ev[i].hdr - last.ev[i].n >= 3 * DSIZE
               THEN /\ last.ev[Placed(i)].hdr = PACK(last.ev[i].n, 1)
                    /\ last.ev[Placed(i)].ftr = PACK(last.ev[i].n, 1)
                    /\ ~last.ev[Placed(i)].listed
                    /\ last.ev[Placed(i)].shdr = PACK(last.ev[i].hdr - last.ev[i].n, 0)
                    /\ last.ev[Placed(i)].sftr = PACK(last.ev[i].hdr - last.ev[i].n, 0)
                    /\ last.ev[Placed(i)].slisted
               ELSE /\ last.ev[Placed(i)].hdr = PACK(last.ev[i].hdr, 1)
                    /\ last.ev[Placed(i)].ftr = PACK(last.ev[i].hdr, 1)
                    /\ ~last.ev[Placed(i)].listed
                    /\ last.ev[Placed(i)].list = Drop(last.ev[i].list, last.ev[i].bp)

\* the heap between two calls satisfies the structural invariants: the walk
\* by header sizes, the free list and its links, no two adjacent free blocks
InvariantsHold ==
    /\ Completed
    /\ FreeListExact /\ HeapWalkable /\ NoAdjacentFree /\ FreeListCircular

\* the entry of the log made when the call of coalesce logged at i returned
Coalesced(ev, i) ==
    CHOOSE j \in DOMAIN ev :
        /\ j > i /\ ev[j].fn = "coalesced"
        /\ \A k \in DOMAIN ev : (k > i /\ k < j) => ev[k].fn # "coalesced"

\* the size of the free neighbour whose boundary tag is w, 0 if it is allocated
FreeSize(w) == IF w % 2 = 0 THEN w - (w % DSIZE) ELSE 0

\* the call of coalesce that entered with e and returned with d left one
\* free block covering bp and its free neighbours
Merged(e, d) ==
    /\ d.bp = e.bp - FreeSize(e.pftr)
    /\ d.hdr = PACK((e.hdr - (e.hdr % DSIZE)) + FreeSize(e.pftr) + FreeSize(e.nhdr), 0)
    /\ d.ftr = d.hdr
    /\ FreeSize(e.nhdr) > 0 =>
          \A k \in DOMAIN d.list : d.list[k] # e.bp + (e.hdr - (e.hdr % DSIZE))
    /\ d.list # <<>> /\ d.list[1] = d.bp
    /\ \A k \in DOMAIN d.list : d.list[k] = d.bp => k = 1
    /\ d.pftr % 2 = 1
    /\ d.nhdr % 2 = 1

\* C18: free(bp) on a live block in a heap that satisfies the invariants, and
\* extend_heap on success, leave exactly one free block covering bp and every
\* adjacent free neighbour: its size is the sum of their sizes, its header
\* equals its footer with the allocated bit clear, the absorbed neighbours
\* are off the free list, the merged block is on the list exactly once, at
\* the head, and both its physical neighbours are allocated.  (The calls of
\* coalesce a mm_malloc makes are those of its extend_heap.)
CoalesceMerges ==
    [][last'.op \in {"free", "malloc"}
         => \A i \in DOMAIN last'.ev :
                (last'.ev[i].fn = "coalesce"
                   /\ (last'.op = "free" => InvariantsHold)) =>
                    /\ \E j \in DOMAIN last'.ev :
                          j > i /\ last'.ev[j].fn = "coalesced"
                    /\ Merged(last'.ev[i], last'.ev[Coalesced(last'.ev, i)])]_vars

\* the positions in the free list, in next-link order, of the blocks whose
\* size is at least asize
FitsAt(asize) ==
    {i \in DOMAIN NextList : SizeOf(Word(HDRP(NextList[i]))) >= asize}

\* the first listed block of at least asize bytes
FirstFit(asize) ==
    NextList[CHOOSE i \in FitsAt(asize) : \A j \in FitsAt(asize) : i <= j]

\* C19: a completed allocate(n), n > 0, uses first fit: if a block on the
\* free list has size >= asize, the block returned is the first such block in
\* next-link order and the region keeps its size; if none has, the region
\* grows by exactly max(asize, CHUNKSIZE) bytes and the block returned is the
\* free block that coalesce returned for the new memory (unless the region
\* extender refuses, when null is returned).
FirstFitAllocates ==
    [][(Completed /\ last'.op = "malloc" /\ last'.size > 0 /\ status' = "ok")
         => IF FitsAt(AdjustedSize(last'.size)) # {}
            THEN /\ last'.ret = FirstFit(AdjustedSize(last'.size))
                 /\ brk' = brk
            ELSE \/ last'.nomem /\ last'.ret = NULL /\ brk' = brk
                 \/ /\ brk' = brk + MAX(AdjustedSize(last'.size), CHUNKSIZE)
                    /\ \E i \in DOMAIN last'.ev :
                          /\ last'.ev[i].fn = "coalesced"
                          /\ last'.ev[i].bp = last'.ret]_vars

\* C20: with request sizes over the whole unsigned range and the size
\* adjustment computed modulo 2^w (SizeModulus), a completed allocate(n) or
\* reallocate(ptr, n), n > 0, returns no block smaller than the minimum block
\* size 2*DSIZE and none whose payload is smaller than n; when
\* n + 2*WSIZE + (DSIZE - 1) wraps around, it returns null.
WrappedSizeRefused ==
    (Completed /\ last.op \in {"malloc", "realloc"} /\ last.size > 0)
      => /\ last.ret # NULL =>
              /\ SizeOf(Word(HDRP(last.ret))) >= 2 * DSIZE
              /\ SizeOf(Word(HDRP(last.ret))) - 2 * WSIZE >= last.size
         /\ last.size + 2 * WSIZE + (DSIZE - 1) >= SizeModulus
              => last.ret = NULL

====
